---- MODULE Spec2Model ----
(***************************************************************************)
(* A model of templates/base.py: the conditional multi-zone components     *)
(* (SecurityGroup, LoadBalancer, AutoScalingGroup), LaunchConfiguration,   *)
(* the nested Stack with its template registry, and the registration of a  *)
(* security group with its owning template.                                *)
(*                                                                         *)
(* Values are sequences of strings: None is <<"None">>, a condition name   *)
(* 'HasA' is <<"Has","A">>, Ref(template.param_SubnetA()) is               *)
(* <<"Ref","param_","Subnet","A">>, a value passed by the caller for the   *)
(* keyword CondA is <<"explicit","Cond","A">>.                             *)
(***************************************************************************)
EXTENDS Integers, Sequences, FiniteSets, TLC

VARIABLES
    template,   \* the owning template: is there one, and which accessors it declares
    comp,       \* the component most recently constructed
    out,        \* the receiver and the result of the most recent expander call
    err,        \* the exception raised by the most recent operation, or "none"
    resources,  \* the template's component mapping: name -> resource
    addCalls,   \* name -> number of add_resource calls made for that name
    TEMPLATES   \* Stack.TEMPLATES: template name -> entry

vars == <<template, comp, out, err, resources, addCalls, TEMPLATES>>

---------------------------------------------------------------------------
(* Bounds *)

MaxOverrides == 1   \* keyword overrides passed to one constructor
MaxPostAdd == 2     \* add_resource calls recorded per resource name

---------------------------------------------------------------------------
(* Values *)

None == <<"None">>
NoValue == <<"AWS::NoValue">>

Truthy(v) == v /= None /\ v /= <<>>

Ref(x) == <<"Ref">> \o x

If(cond, x) == [wrap |-> "If", cond |-> cond, then |-> x, else |-> NoValue]

Plain(x) == [wrap |-> "none", cond |-> None, then |-> x, else |-> None]

Explicit(key) == <<"explicit">> \o key

---------------------------------------------------------------------------
(* ConditionalAZMixin *)

AZS == <<"a", "b", "c">>

CONDITIONAL_AZ_ATTRS == <<"cond", "subnet", "public_subnet", "gateway_security_group">>

Zones == {AZS[i] : i \in DOMAIN AZS}

AzAttrs == {CONDITIONAL_AZ_ATTRS[i] : i \in DOMAIN CONDITIONAL_AZ_ATTRS}

\* az.upper()
Upper(az) == CASE az = "a" -> "A" [] az = "b" -> "B" [] az = "c" -> "C"

\* ''.join(s.capitalize() for s in attr.split('_'))
Capitalized(attr) ==
    CASE attr = "cond" -> "Cond"
      [] attr = "subnet" -> "Subnet"
      [] attr = "public_subnet" -> "PublicSubnet"
      [] attr = "gateway_security_group" -> "GatewaySecurityGroup"

Camel(attr, az) == <<Capitalized(attr), Upper(az)>>

\* 'param_{}'.format(camel), or 'cond_Has{}'.format(az.upper()) for attr 'cond'
TemplateAttr(attr, az) ==
    IF attr = "cond" THEN <<"cond_Has", Upper(az)>>
    ELSE <<"param_">> \o Camel(attr, az)

HasAttr(t, name) == name \in t.attrs

\* a faulty variant: the template's declaration is looked up before the keyword
ResolveAZTemplateFirst(kwargs, t, attr, az) ==
    IF t.present /\ HasAttr(t, TemplateAttr(attr, az))
    THEN IF attr = "cond" THEN <<"Has", Upper(az)>> ELSE Ref(TemplateAttr(attr, az))
    ELSE IF Camel(attr, az) \in DOMAIN kwargs THEN kwargs[Camel(attr, az)]
    ELSE None

\* the value stored in self._<attr>_<az>
ResolveAZ(kwargs, t, attr, az) ==
    IF Camel(attr, az) \in DOMAIN kwargs THEN kwargs[Camel(attr, az)]
    ELSE IF t.present /\ HasAttr(t, TemplateAttr(attr, az))
    THEN IF attr = "cond" THEN <<"Has", Upper(az)>> ELSE Ref(TemplateAttr(attr, az))
    ELSE None

AzKeys == {Camel(attr, az) : attr \in AzAttrs, az \in Zones}

\* self._<attr>_<az> for every attr and az
MixinInit(kwargs, t) ==
    [attr \in AzAttrs |-> [az \in Zones |-> ResolveAZ(kwargs, t, attr, az)]]

\* the keywords left for the base class once the mixin has popped its own
Rest(kwargs, popped) == [k \in DOMAIN kwargs \ popped |-> kwargs[k]]

---------------------------------------------------------------------------
(* Keyword arguments *)

\* a keyword that may be left out: kwargs.pop(key, default)
Opt(S, default) ==
    {[given |-> FALSE, value |-> default]} \cup {[given |-> TRUE, value |-> v] : v \in S}

Pop(o, default) == IF o.given THEN o.value ELSE default

\* keyword dictionaries over the given keys: each key present carries None or
\* a value of the caller's
Kwargs(keys) ==
    UNION {{f \in [S -> {None} \cup {Explicit(k) : k \in S}] :
                \A k \in S : f[k] \in {None, Explicit(k)}} :
           S \in {T \in SUBSET keys : Cardinality(T) <= MaxOverrides}}

\* the property the base class emits: the keyword given at construction, else
\* the value of the class's method of that name
EmitProp(c, prop, methodValue) ==
    IF <<prop>> \in DOMAIN c.props THEN c.props[<<prop>>] ELSE methodValue

---------------------------------------------------------------------------
(* SecurityGroup *)

\* str(port)
Str(port) == CASE port = 80 -> "80" [] port = 443 -> "443"

\* the Allow lists the application template declares (sg, sg_LoadBalancerSecurityGroup),
\* the empty default, and a list in the other order
AllowLists == {<<>>, <<80>>, <<80, 443>>, <<443, 80>>}

Rule(name, proto, from, to, cidr, source) ==
    [name |-> name, IpProtocol |-> proto, FromPort |-> from, ToPort |-> to,
     CidrIp |-> cidr, SourceSecurityGroupId |-> source]

World == <<"0.0.0.0/0">>

SecurityGroupInit(name, allow, allowSelf, allowSSH, gatewaySSH, kwargs, t) ==
    [kind |-> "sg", name |-> name,
     allow |-> Pop(allow, <<>>),
     allow_self |-> Pop(allowSelf, TRUE),
     allow_ssh |-> Pop(allowSSH, FALSE),
     gateway_ssh |-> Pop(gatewaySSH, TRUE),
     az |-> MixinInit(kwargs, t),
     props |-> Rest(kwargs, AzKeys),
     given |-> kwargs]

\* a faulty variant: a zone's rule is emitted whether or not the zone has a condition
GatewaySSHRuleAlways(sg, az) ==
    <<If(sg.az["cond"][az],
         Rule(<<"SSH", Upper(az)>>, "tcp", "22", "22", None,
              sg.az["gateway_security_group"][az]))>>

\* one "if self._cond_<az>: rules.append(If(...))" block
GatewaySSHRule(sg, az) ==
    IF Truthy(sg.az["cond"][az])
    THEN <<If(sg.az["cond"][az],
              Rule(<<"SSH", Upper(az)>>, "tcp", "22", "22", None,
                   sg.az["gateway_security_group"][az]))>>
    ELSE <<>>

\* a faulty variant: the gateway rules are emitted beside the world-open rule
SSHRulesBoth(sg) ==
    (IF sg.allow_ssh
     THEN <<Plain(Rule(<<"SSH">>, "tcp", "22", "22", World, None))>>
     ELSE <<>>)
    \o (IF sg.gateway_ssh
        THEN GatewaySSHRule(sg, "a") \o GatewaySSHRule(sg, "b") \o GatewaySSHRule(sg, "c")
        ELSE <<>>)

\* the "if self._allow_ssh ... elif self._gateway_ssh" part
SSHRules(sg) ==
    IF sg.allow_ssh
    THEN <<Plain(Rule(<<"SSH">>, "tcp", "22", "22", World, None))>>
    ELSE IF sg.gateway_ssh
    THEN GatewaySSHRule(sg, "a") \o GatewaySSHRule(sg, "b") \o GatewaySSHRule(sg, "c")
    ELSE <<>>

PortRules(sg) ==
    [i \in 1..Len(sg.allow) |->
        Plain(Rule(<<"Port", Str(sg.allow[i])>>, "tcp", Str(sg.allow[i]),
                   Str(sg.allow[i]), World, None))]

SecurityGroupIngress(sg) ==
    <<Plain(Rule(<<"ICMP">>, "icmp", "-1", "-1", World, None))>>
    \o SSHRules(sg) \o PortRules(sg)

---------------------------------------------------------------------------
(* LoadBalancer *)

Internal == <<"internal">>

Schemes == {Internal, <<"internet-facing">>, None}

LoadBalancerInit(name, scheme, kwargs, t) ==
    [kind |-> "elb", name |-> name,
     scheme |-> Pop(scheme, Internal),
     az |-> MixinInit(kwargs, t),
     props |-> Rest(kwargs, AzKeys),
     given |-> kwargs]

\* a faulty variant: the test of the scheme is inverted
PossibleSubnetPrivate(lb, az) ==
    IF Truthy(lb.az["cond"][az])
    THEN <<If(lb.az["cond"][az],
              IF lb.scheme = Internal THEN lb.az["public_subnet"][az]
              ELSE lb.az["subnet"][az])>>
    ELSE <<>>

\* one turn of the loop over possible_subnets
PossibleSubnet(lb, az) ==
    IF Truthy(lb.az["cond"][az])
    THEN <<If(lb.az["cond"][az],
              IF lb.scheme /= Internal THEN lb.az["public_subnet"][az]
              ELSE lb.az["subnet"][az])>>
    ELSE <<>>

Subnets(lb) == PossibleSubnet(lb, "a") \o PossibleSubnet(lb, "b") \o PossibleSubnet(lb, "c")

---------------------------------------------------------------------------
(* AutoScalingGroup *)

AutoScalingGroupInit(name, kwargs, t) ==
    [kind |-> "asg", name |-> name,
     az |-> MixinInit(kwargs, t),
     props |-> Rest(kwargs, AzKeys),
     given |-> kwargs]

\* Join('', [Ref('AWS::Region'), az])
RegionZone(az) == <<"Join", "Ref", "AWS::Region", az>>

AvailabilityZone(asg, az) ==
    IF Truthy(asg.az["cond"][az])
    THEN <<If(asg.az["cond"][az], RegionZone(az))>>
    ELSE <<>>

AvailabilityZones(asg) ==
    AvailabilityZone(asg, "a") \o AvailabilityZone(asg, "b") \o AvailabilityZone(asg, "c")

VPCZone(asg, az) ==
    IF Truthy(asg.az["cond"][az])
    THEN <<If(asg.az["cond"][az], asg.az["subnet"][az])>>
    ELSE <<>>

VPCZoneIdentifier(asg) == VPCZone(asg, "a") \o VPCZone(asg, "b") \o VPCZone(asg, "c")

LaunchConfigurationName(asg) == Ref(<<"lc">>)

MaxSize(asg) == <<"1">>

MinSize(asg) == <<"1">>

AsgPropKeys == {<<"LaunchConfigurationName">>, <<"MaxSize">>, <<"MinSize">>}

---------------------------------------------------------------------------
(* LaunchConfiguration *)

LcPropKeys == {<<"IamInstanceProfile">>, <<"ImageId">>, <<"KeyName">>}

\* a faulty variant: ChefEnv is popped with a default, as NameTag is
LaunchConfigurationErrorRecipeOnly(chefRecipe, chefEnv) ==
    IF ~chefRecipe.given THEN "KeyError" ELSE "none"

\* kwargs.pop('ChefRecipe') and kwargs.pop('ChefEnv') have no default
LaunchConfigurationError(chefRecipe, chefEnv) ==
    IF ~chefRecipe.given THEN "KeyError"
    ELSE IF ~chefEnv.given THEN "KeyError"
    ELSE "none"

LaunchConfigurationInit(name, securityGroup, chefRecipe, chefEnv, nameTag, kwargs) ==
    [kind |-> "lc", name |-> name,
     security_group |-> Pop(securityGroup, None),
     chef_recipe |-> chefRecipe.value,
     chef_env |-> chefEnv.value,
     name_tag |-> Pop(nameTag, <<"ec2">>),
     props |-> kwargs,
     given |-> [ChefRecipe |-> chefRecipe.given, ChefEnv |-> chefEnv.given]]

IamInstanceProfile(lc) == Ref(<<"insp">>)

ImageId(lc) == Ref(<<"param_AmiId">>)

KeyName(lc) == Ref(<<"param_KeyName">>)

\* Base64(Join('', ['#!/bin/bash -xe\n', '/opt/bootstrap.sh "', name_tag, '" "',
\* chef_env, '" "', chef_recipe, '"\n']))
UserData(lc) ==
    <<"Base64", "Join", "#!/bin/bash -xe", "/opt/bootstrap.sh">>
    \o lc.name_tag \o lc.chef_env \o lc.chef_recipe

---------------------------------------------------------------------------
(* Stack *)

TemplateNames == {<<"app">>, <<"db">>}

Hashes == {<<"h1">>, <<"h2">>}

\* an entry of Stack.TEMPLATES: a dictionary that may hold the key 'sha1'
Entries == UNION {[S -> Hashes] : S \in SUBSET {"sha1"}}

ParamKeys == {<<"VpcId">>, <<"KeyName">>, <<"Env">>}

StackInit(name, parameters, templateName) ==
    [kind |-> "stack", name |-> name,
     parameters |-> Pop(parameters, <<>>),
     template_name |-> Pop(templateName, None)]

\* self.TEMPLATES.get(name, {})
Get(reg, name) == IF name \in DOMAIN reg THEN reg[name] ELSE <<>>

\* a faulty variant: only an unknown name is refused, an entry without a hash is not
TemplateURLErrorUnknownOnly(stack, reg) ==
    IF Truthy(stack.template_name) /\ stack.template_name \notin DOMAIN reg
    THEN "ValueError" ELSE "none"

TemplateURLError(stack, reg) ==
    IF Truthy(stack.template_name) /\ "sha1" \notin DOMAIN Get(reg, stack.template_name)
    THEN "ValueError" ELSE "none"

\* '.s3.amazonaws.com/templates/{}-{}.json'.format(name, sha1) after the bucket
Url(name, sha1) ==
    <<"https://balanced-cfn-", "Ref", "AWS::Region", ".s3.amazonaws.com/templates/">>
    \o name \o <<"-">> \o sha1 \o <<".json">>

\* the value TemplateURL returns when it does not raise
TemplateURL(stack, reg) ==
    IF Truthy(stack.template_name)
    THEN Url(stack.template_name,
             IF "sha1" \in DOMAIN Get(reg, stack.template_name)
             THEN Get(reg, stack.template_name)["sha1"] ELSE None)
    ELSE None

DefaultParameters ==
    [k \in {<<"VpcId">>, <<"KeyName">>} |->
        IF k = <<"VpcId">> THEN Ref(<<"param_VpcId">>) ELSE Ref(<<"param_KeyName">>)]

\* params.update(self._parameters)
Parameters(stack) ==
    [k \in DOMAIN DefaultParameters \cup DOMAIN stack.parameters |->
        IF k \in DOMAIN stack.parameters THEN stack.parameters[k]
        ELSE DefaultParameters[k]]

---------------------------------------------------------------------------
(* The template's conditions, and their evaluation when the stack is deployed *)

\* the values given to param_Subnet<Z> and param_GatewaySecurityGroup<Z>:
\* '' (the declared Default) or an identifier
DeployKeys == {<<p, Upper(az)>> : p \in {"Subnet", "GatewaySecurityGroup"}, az \in Zones}

DeployValues == [DeployKeys -> {"", "id"}]

\* a faulty variant: the Not around the gateway security group's test is lost
HasZoneNoNot(z, vals) ==
    vals[<<"Subnet", z>>] /= "" /\ vals[<<"GatewaySecurityGroup", z>>] = ""

\* cond_Has<Z>: And(Not(Equals(Ref(param_Subnet<Z>), '')),
\*                  Not(Equals(Ref(param_GatewaySecurityGroup<Z>), '')))
HasZone(z, vals) ==
    vals[<<"Subnet", z>>] /= "" /\ vals[<<"GatewaySecurityGroup", z>>] /= ""

DeclaredCond(cond) == cond \in {<<"Has", Upper(az)>> : az \in Zones}

EvalCond(cond, vals) == HasZone(cond[2], vals)

Kept(e, vals) == e.wrap /= "If" \/ EvalCond(e.cond, vals)

\* what the provisioning engine makes of a list: If(cond, x, NoValue) is x when
\* cond holds and is dropped otherwise
RECURSIVE Render(_, _)
Render(list, vals) ==
    IF list = <<>> THEN <<>>
    ELSE (IF Kept(Head(list), vals) THEN <<Head(list).then>> ELSE <<>>)
         \o Render(Tail(list), vals)

---------------------------------------------------------------------------
(* The template's component mapping *)

Names == {<<"sg">>, <<"LoadBalancerSecurityGroup">>}

Suffixes == <<"SelfTCPIngress", "SelfUDPIngress", "SelfICMPIngress">>

Siblings(name) == {name \o <<Suffixes[i]>> : i \in DOMAIN Suffixes}

AllNames == Names \cup UNION {Siblings(n) : n \in Names}

\* stratosphere.ec2.SecurityGroupIngress(name + suffix, ..., GroupId=Ref(self),
\* SourceSecurityGroupId=Ref(self))
SelfIngress(sg, suffix, proto, from, to) ==
    [kind |-> "ingress", name |-> sg.name \o <<suffix>>, IpProtocol |-> proto,
     FromPort |-> from, ToPort |-> to,
     GroupId |-> Ref(sg.name), SourceSecurityGroupId |-> Ref(sg.name)]

\* template.add_resource: a name is registered once; a second registration of
\* the name is an error and leaves the mapping as it was
AddResource(d, r) ==
    LET dup == r.name \in DOMAIN d.resources
    IN IF d.err /= "none" THEN d
       ELSE [resources |-> IF dup THEN d.resources
                           ELSE [n \in DOMAIN d.resources \cup {r.name} |->
                                    IF n = r.name THEN r ELSE d.resources[n]],
             addCalls |-> [d.addCalls EXCEPT ![r.name] = @ + 1],
             err |-> IF dup THEN "DuplicateName" ELSE "none"]

\* a faulty variant: AllowSelf is not consulted
PostAddAlways(d, sg) ==
    LET d1 == AddResource(d, SelfIngress(sg, "SelfTCPIngress", "tcp", "0", "65535"))
        d2 == AddResource(d1, SelfIngress(sg, "SelfUDPIngress", "udp", "0", "65535"))
    IN AddResource(d2, SelfIngress(sg, "SelfICMPIngress", "icmp", "-1", "-1"))

PostAdd(d, sg) ==
    IF sg.allow_self
    THEN LET d1 == AddResource(d, SelfIngress(sg, "SelfTCPIngress", "tcp", "0", "65535"))
             d2 == AddResource(d1, SelfIngress(sg, "SelfUDPIngress", "udp", "0", "65535"))
         IN AddResource(d2, SelfIngress(sg, "SelfICMPIngress", "icmp", "-1", "-1"))
    ELSE d

\* the registration of a component: add_resource, then the component's post_add
Register(d, r) ==
    LET d1 == AddResource(d, r)
    IN IF d1.err /= "none" THEN d1 ELSE PostAdd(d1, r)

Doc == [resources |-> resources, addCalls |-> addCalls, err |-> "none"]

---------------------------------------------------------------------------
(* Templates *)

\* the accessors a template class declares for one zone: the condition, the
\* subnet and the gateway security group, with or without the public subnet
Declared(az, public) ==
    {TemplateAttr(attr, az) : attr \in AzAttrs \ (IF public THEN {} ELSE {"public_subnet"})}

NoTemplate == [present |-> FALSE, attrs |-> {}]

\* no template, or a template class that declares some of the zones
Templates ==
    {NoTemplate} \cup
    {[present |-> TRUE, attrs |-> UNION {Declared(az, public) : az \in zs}] :
        zs \in SUBSET Zones, public \in BOOLEAN}

\* AppTemplate declares param_Subnet<Z>, param_PublicSubnet<Z>,
\* param_GatewaySecurityGroup<Z> and cond_Has<Z> for the three zones
AppTemplate ==
    [present |-> TRUE, attrs |-> {TemplateAttr(attr, az) : attr \in AzAttrs, az \in Zones}]

---------------------------------------------------------------------------
(* Operations *)

\* comp is one object: it is constructed once and then called
NoComp == [kind |-> "none"]

NoOut == [op |-> "none", self |-> NoComp, value |-> <<>>]

Returned(op, value) == [op |-> op, self |-> comp, value |-> value]

Flags == Opt(BOOLEAN, FALSE)

ChefValues == Opt({None, <<"value">>}, None)

KwargsAz == Kwargs(AzKeys)

KwargsAsg == Kwargs(AzKeys \cup AsgPropKeys)

KwargsLc == Kwargs(LcPropKeys)

KwargsParameters == Opt(Kwargs(ParamKeys), <<>>)

NewSecurityGroup(name) ==
    /\ comp.kind = "none"
    /\ \E allow \in Opt(AllowLists, <<>>), allowSSH, gatewaySSH \in Flags,
          kwargs \in KwargsAz :
            comp' = SecurityGroupInit(name, allow, [given |-> FALSE, value |-> TRUE],
                                      allowSSH, gatewaySSH, kwargs, template)
    /\ out' = NoOut
    /\ err' = "none"
    /\ UNCHANGED <<template, resources, addCalls, TEMPLATES>>

NewLoadBalancer(name) ==
    /\ comp.kind = "none"
    /\ \E scheme \in Opt(Schemes, Internal), kwargs \in KwargsAz :
            comp' = LoadBalancerInit(name, scheme, kwargs, template)
    /\ out' = NoOut
    /\ err' = "none"
    /\ UNCHANGED <<template, resources, addCalls, TEMPLATES>>

NewAutoScalingGroup(name) ==
    /\ comp.kind = "none"
    /\ \E kwargs \in KwargsAsg : comp' = AutoScalingGroupInit(name, kwargs, template)
    /\ out' = NoOut
    /\ err' = "none"
    /\ UNCHANGED <<template, resources, addCalls, TEMPLATES>>

\* with a keyword missing the constructor raises before any attribute is set
Construct(name, securityGroup, chefRecipe, chefEnv, nameTag, kwargs) ==
    /\ err' = LaunchConfigurationError(chefRecipe, chefEnv)
    /\ comp' = IF LaunchConfigurationError(chefRecipe, chefEnv) = "none"
               THEN LaunchConfigurationInit(name, securityGroup, chefRecipe, chefEnv,
                                            nameTag, kwargs)
               ELSE comp
    /\ out' = IF LaunchConfigurationError(chefRecipe, chefEnv) = "none"
              THEN NoOut
              ELSE [op |-> "LaunchConfiguration", self |-> comp, value |-> <<>>]
    /\ UNCHANGED <<template, resources, addCalls, TEMPLATES>>

NewLaunchConfiguration(name) ==
    /\ comp.kind = "none"
    /\ \E securityGroup \in Opt({Ref(<<"sg">>)}, None), chefRecipe, chefEnv \in ChefValues,
          nameTag \in Opt({Ref(<<"param_Tag">>)}, None), kwargs \in KwargsLc :
            Construct(name, securityGroup, chefRecipe, chefEnv, nameTag, kwargs)

NewStack(name) ==
    /\ comp.kind = "none"
    /\ \E parameters \in KwargsParameters, templateName \in Opt(TemplateNames, None) :
            comp' = StackInit(name, parameters, templateName)
    /\ out' = NoOut
    /\ err' = "none"
    /\ UNCHANGED <<template, resources, addCalls, TEMPLATES>>

\* an assignment to the load balancer's _scheme between two calls
SetScheme ==
    /\ comp.kind = "elb"
    /\ \E scheme \in Schemes : comp' = [comp EXCEPT !.scheme = scheme]
    /\ UNCHANGED <<template, out, err, resources, addCalls, TEMPLATES>>

Call(op, value) ==
    /\ out' = Returned(op, value)
    /\ err' = "none"
    /\ UNCHANGED <<template, comp, resources, addCalls, TEMPLATES>>

CallSecurityGroupIngress ==
    /\ comp.kind = "sg"
    /\ Call("SecurityGroupIngress", SecurityGroupIngress(comp))

CallSubnets ==
    /\ comp.kind = "elb"
    /\ Call("Subnets", Subnets(comp))

CallAvailabilityZones ==
    /\ comp.kind = "asg"
    /\ Call("AvailabilityZones", AvailabilityZones(comp))

CallVPCZoneIdentifier ==
    /\ comp.kind = "asg"
    /\ Call("VPCZoneIdentifier", VPCZoneIdentifier(comp))

\* the value of the method named prop
Method(c, prop) ==
    CASE prop = "LaunchConfigurationName" -> LaunchConfigurationName(c)
      [] prop = "MaxSize" -> MaxSize(c)
      [] prop = "MinSize" -> MinSize(c)
      [] prop = "IamInstanceProfile" -> IamInstanceProfile(c)
      [] prop = "ImageId" -> ImageId(c)
      [] prop = "KeyName" -> KeyName(c)

\* self.template.lc(), .insp(), .param_AmiId(), .param_KeyName() need a template
NeedsTemplate(prop) == prop \notin {"MaxSize", "MinSize"}

\* the emission of one property of an autoscaling group or a launch configuration
EmitProperty(prop) ==
    /\ IF <<prop>> \notin DOMAIN comp.props /\ NeedsTemplate(prop) /\ ~template.present
       THEN /\ err' = "AttributeError"
            /\ out' = Returned(prop, None)
       ELSE /\ err' = "none"
            /\ out' = Returned(prop, EmitProp(comp, prop, Method(comp, prop)))
    /\ UNCHANGED <<template, comp, resources, addCalls, TEMPLATES>>

EmitAsgProperty ==
    /\ comp.kind = "asg"
    /\ \E key \in AsgPropKeys : EmitProperty(key[1])

EmitLcProperty ==
    /\ comp.kind = "lc"
    /\ \E key \in LcPropKeys : EmitProperty(key[1])

CallUserData ==
    /\ comp.kind = "lc"
    /\ Call("UserData", UserData(comp))

CallParameters ==
    /\ comp.kind = "stack"
    /\ template.present
    /\ Call("Parameters", Parameters(comp))

CallTemplateURL ==
    /\ comp.kind = "stack"
    /\ err' = TemplateURLError(comp, TEMPLATES)
    /\ out' = [op |-> "TemplateURL", self |-> comp, registry |-> TEMPLATES,
               value |-> IF TemplateURLError(comp, TEMPLATES) = "none"
                         THEN TemplateURL(comp, TEMPLATES) ELSE None]
    /\ UNCHANGED <<template, comp, resources, addCalls, TEMPLATES>>

\* the packaging step that fills Stack.TEMPLATES before expansion
RegisterTemplate ==
    /\ \E name \in TemplateNames, entry \in Entries :
            TEMPLATES' = [n \in DOMAIN TEMPLATES \cup {name} |->
                             IF n = name THEN entry ELSE TEMPLATES[n]]
    /\ UNCHANGED <<template, comp, out, err, resources, addCalls>>

\* the deployment of the template with the given parameter values
Deploy ==
    /\ comp.kind = "asg"
    /\ \A i \in DOMAIN AvailabilityZones(comp) : DeclaredCond(AvailabilityZones(comp)[i].cond)
    /\ \E vals \in DeployValues :
            out' = [op |-> "Deploy", self |-> comp, deploy |-> vals,
                    emitted |-> AvailabilityZones(comp),
                    value |-> Render(AvailabilityZones(comp), vals)]
    /\ err' = "none"
    /\ UNCHANGED <<template, comp, resources, addCalls, TEMPLATES>>

\* a security group is declared as sg_LoadBalancerSecurityGroup declares one
\* (Allow [80] or [80, 443], GatewaySSH False), with AllowSelf given or left out,
\* and registered with the template
AddSecurityGroup ==
    \E name \in Names, allow \in {<<80>>, <<80, 443>>}, allowSelf \in Flags :
        LET sg == SecurityGroupInit(name, [given |-> TRUE, value |-> allow], allowSelf,
                                    [given |-> FALSE, value |-> FALSE],
                                    [given |-> TRUE, value |-> FALSE], <<>>, template)
            d == Register(Doc, sg)
        IN /\ addCalls[name] < MaxPostAdd
           /\ resources' = d.resources
           /\ addCalls' = d.addCalls
           /\ err' = d.err
           /\ out' = [op |-> "add_resource", self |-> sg, value |-> <<>>]
           /\ UNCHANGED <<template, comp, TEMPLATES>>

\* post_add runs again on a registered security group
RunPostAdd ==
    \E name \in DOMAIN resources :
        /\ resources[name].kind = "sg"
        /\ \A s \in Siblings(name) : addCalls[s] < MaxPostAdd
        /\ LET d == PostAdd(Doc, resources[name])
           IN /\ resources' = d.resources
              /\ addCalls' = d.addCalls
              /\ err' = d.err
        /\ out' = [op |-> "post_add", self |-> resources[name], value |-> <<>>]
        /\ UNCHANGED <<template, comp, TEMPLATES>>


ClassAttrs == {None, <<"set">>}

\* AppTemplate.lc(): param_ChefRecipe() raises without CHEF_RECIPE and param_Tag()
\* without STACK_TAG, before the launch configuration is constructed
LcError(chefRecipeAttr, stackTagAttr) ==
    IF ~Truthy(chefRecipeAttr) THEN "ValueError"
    ELSE IF ~Truthy(stackTagAttr) THEN "ValueError"
    ELSE "none"

DeclareLc ==
    /\ comp.kind = "none"
    /\ \E chefRecipeAttr, stackTagAttr \in ClassAttrs :
        IF LcError(chefRecipeAttr, stackTagAttr) /= "none"
        THEN /\ err' = LcError(chefRecipeAttr, stackTagAttr)
             /\ out' = [op |-> "lc", self |-> comp, value |-> <<>>]
             /\ UNCHANGED <<template, comp, resources, addCalls, TEMPLATES>>
        ELSE Construct(<<"lc">>,
                 [given |-> TRUE, value |-> Ref(<<"sg">>)],
                 [given |-> TRUE, value |-> Ref(<<"param_ChefRecipe">>)],
                 [given |-> TRUE, value |-> Ref(<<"param_ChefEnv">>)],
                 [given |-> TRUE, value |-> Ref(<<"param_Tag">>)],
                 <<>>)

---------------------------------------------------------------------------
(* Specifications *)

Anon == <<"res">>

InitRest ==
    /\ comp = NoComp
    /\ out = NoOut
    /\ err = "none"
    /\ resources = <<>>
    /\ addCalls = [n \in AllNames |-> 0]
    /\ TEMPLATES = <<>>

\* the components of one template, their expanders and emitted properties
Init == template \in Templates /\ InitRest

Next ==
    \/ NewSecurityGroup(Anon)
    \/ NewLoadBalancer(Anon)
    \/ NewAutoScalingGroup(Anon)
    \/ NewLaunchConfiguration(Anon)
    \/ DeclareLc
    \/ NewStack(Anon)
    \/ SetScheme
    \/ CallSecurityGroupIngress
    \/ CallSubnets
    \/ CallAvailabilityZones
    \/ CallVPCZoneIdentifier
    \/ EmitAsgProperty
    \/ EmitLcProperty
    \/ CallUserData
    \/ CallParameters

Spec == Init /\ [][Next]_vars

\* the registration of security groups with the application template
InitDoc == template = AppTemplate /\ InitRest

NextDoc == AddSecurityGroup \/ RunPostAdd

SpecDoc == InitDoc /\ [][NextDoc]_vars

\* nested stacks and the template registry
InitStack == template = AppTemplate /\ InitRest

NextStack == RegisterTemplate \/ NewStack(Anon) \/ CallTemplateURL

SpecStack == InitStack /\ [][NextStack]_vars

\* an autoscaling group of the application template, deployed
InitDeploy == template = AppTemplate /\ InitRest

NextDeploy == NewAutoScalingGroup(Anon) \/ CallAvailabilityZones \/ Deploy

SpecDeploy == InitDeploy /\ [][NextDeploy]_vars

---------------------------------------------------------------------------
(* Properties *)

IsIf(e) == e.wrap = "If"

\* the conditional entries of an emitted list, in the order emitted
IfEntries(list) == SelectSeq(list, IsIf)

\* the zones of a component whose condition is not None, in the order A, B, C
Present(c) ==
    (IF c.az["cond"]["a"] /= None THEN <<"a">> ELSE <<>>)
    \o (IF c.az["cond"]["b"] /= None THEN <<"b">> ELSE <<>>)
    \o (IF c.az["cond"]["c"] /= None THEN <<"c">> ELSE <<>>)

\* entry i of the list is the conditional entry of the i-th present zone
ZoneEntries(list, c) ==
    /\ Len(IfEntries(list)) = Len(Present(c))
    /\ \A i \in DOMAIN IfEntries(list) :
          IfEntries(list)[i].cond = c.az["cond"][Present(c)[i]]

ZoneOps == {"Subnets", "AvailabilityZones", "VPCZoneIdentifier"}

\* C1: every zone-indexed list an expander emits has exactly one conditional
\* entry per zone whose condition is not None, in the order A, B, C, and none
\* for another zone: the gateway SSH rules of a security group with AllowSSH
\* false and GatewaySSH true, a load balancer's Subnets, an autoscaling group's
\* AvailabilityZones and VPCZoneIdentifier.
C1_OneEntryPerZone ==
    /\ (out.op = "SecurityGroupIngress" /\ ~out.self.allow_ssh /\ out.self.gateway_ssh)
          => /\ ZoneEntries(out.value, out.self)
             /\ \A i \in DOMAIN IfEntries(out.value) :
                   IfEntries(out.value)[i].then.name = <<"SSH", Upper(Present(out.self)[i])>>
    /\ out.op \in ZoneOps
          => /\ ZoneEntries(out.value, out.self)
             /\ Len(out.value) = Len(Present(out.self))
    /\ out.op = "AvailabilityZones"
          => \A i \in DOMAIN out.value : out.value[i].then[4] = Present(out.self)[i]

\* a security group with conditions for zones A and C only has emitted its rules
C1_Witness ==
    /\ out.op = "SecurityGroupIngress"
    /\ ~out.self.allow_ssh /\ out.self.gateway_ssh
    /\ Present(out.self) = <<"a", "c">>
    /\ Len(IfEntries(out.value)) = 2

\* C6: a security group with AllowSSH true emits ICMP, then the one world-open
\* SSH rule (tcp 22 from 0.0.0.0/0), then one Port<N> rule per allowed port in
\* the order given, and no conditional rule, whatever GatewaySSH and the zone
\* conditions are.
C6_AllowSSHWorldOpen ==
    (out.op = "SecurityGroupIngress" /\ out.self.allow_ssh)
        => /\ Len(out.value) = 2 + Len(out.self.allow)
           /\ \A i \in DOMAIN out.value : out.value[i].wrap = "none"
           /\ out.value[1].then.name = <<"ICMP">>
           /\ out.value[2].then = Rule(<<"SSH">>, "tcp", "22", "22", <<"0.0.0.0/0">>, None)
           /\ \A i \in DOMAIN out.self.allow :
                 out.value[2 + i].then.name = <<"Port", Str(out.self.allow[i])>>
           /\ \A i \in DOMAIN out.value :
                 out.value[i].then.name \notin {<<"SSH", Upper(az)>> : az \in Zones}

\* AllowSSH and GatewaySSH are both true, a zone has a condition, two ports are allowed
C6_Witness ==
    /\ out.op = "SecurityGroupIngress"
    /\ out.self.allow_ssh /\ out.self.gateway_ssh
    /\ Present(out.self) /= <<>>
    /\ out.self.allow = <<443, 80>>
    /\ Len(out.value) = 4

PropOps ==
    {"LaunchConfigurationName", "MaxSize", "MinSize", "IamInstanceProfile", "ImageId", "KeyName"}

Overridden(c, attr, az) == Camel(attr, az) \in DOMAIN c.given

Override(c, attr, az) == c.given[Camel(attr, az)]

Selected(lb, az) ==
    IF lb.scheme = Internal THEN lb.az["subnet"][az] ELSE lb.az["public_subnet"][az]

\* C7: Subnets emits, for every zone with a condition, the zone's private subnet
\* when the scheme is 'internal' and its public subnet otherwise, by the scheme
\* the load balancer has when Subnets is called: two calls between which the
\* scheme changed from or to 'internal' differ wherever the two subnets differ.
C7_SubnetsByScheme ==
    /\ [](out.op = "Subnets"
            => /\ Len(out.value) = Len(Present(out.self))
               /\ \A i \in DOMAIN out.value :
                     out.value[i].then = Selected(out.self, Present(out.self)[i]))
    /\ [][(out.op = "Subnets" /\ out'.op = "Subnets" /\ out'.self.az = out.self.az
            /\ (out.self.scheme = Internal) /= (out'.self.scheme = Internal))
          => \A i \in DOMAIN out.value :
                LET az == Present(out.self)[i]
                IN out.self.az["subnet"][az] /= out.self.az["public_subnet"][az]
                      => out'.value[i] /= out.value[i]]_vars

\* zone B is available, the scheme is not 'internal', and the call has emitted
\* zone B's public subnet, which is not its private subnet
C7_Witness ==
    /\ out.op = "Subnets"
    /\ out.self.scheme /= Internal
    /\ out.self.az["cond"]["b"] /= None
    /\ out.self.az["public_subnet"]["b"] /= None
    /\ out.self.az["public_subnet"]["b"] /= out.self.az["subnet"]["b"]
    /\ \E i \in DOMAIN out.value :
          /\ out.value[i].cond = out.self.az["cond"]["b"]
          /\ out.value[i].then = out.self.az["public_subnet"]["b"]

\* C8: a launch configuration exists only if ChefRecipe and ChefEnv were both
\* passed; a construction without one of them raises at once, produces no
\* instance and leaves the template's components as they were, so UserData is
\* never reached with one of them missing.
C8_MissingChefKeywordRaises ==
    /\ [](/\ comp.kind = "lc" => (comp.given.ChefRecipe /\ comp.given.ChefEnv)
          /\ out.op = "UserData" => (out.self.given.ChefRecipe /\ out.self.given.ChefEnv)
          /\ out.op = "LaunchConfiguration" => (err = "KeyError" /\ comp.kind = "none"))
    /\ [][err' = "KeyError" => (comp' = comp /\ resources' = resources)]_vars

\* a construction has failed and no component exists
C8_Witness ==
    /\ err = "KeyError"
    /\ out.op = "LaunchConfiguration"
    /\ comp.kind = "none"

\* C10: every conditional entry emitted for a zone carries a value: the gateway
\* security group of a gateway SSH rule, the subnet of a load balancer's or an
\* autoscaling group's entry, is not None.
C10_EntriesCarryValues ==
    /\ out.op \in {"Subnets", "VPCZoneIdentifier"}
          => \A i \in DOMAIN out.value : out.value[i].then /= None
    /\ out.op = "SecurityGroupIngress"
          => \A i \in DOMAIN IfEntries(out.value) :
                IfEntries(out.value)[i].then.SourceSecurityGroupId /= None

\* C2: post_add, run again on a security group that is already registered, does
\* not register the SelfTCPIngress, SelfUDPIngress and SelfICMPIngress siblings
\* a second time: it makes no further add_resource call for them and raises nothing.
C2_PostAddRegistersOnce ==
    out.op = "post_add"
        => /\ err = "none"
           /\ \A s \in Siblings(out.self.name) : addCalls[s] <= 1

\* C9: the registration of a security group named N adds N and, when AllowSelf
\* is true, exactly the three siblings N+'SelfTCPIngress', N+'SelfUDPIngress'
\* and N+'SelfICMPIngress', each with N as group and as source; when AllowSelf
\* is false it adds N alone; every component registered before is unchanged.
C9_RegistrationAddsSiblings ==
    [][(out'.op = "add_resource" /\ err' = "none" /\ resources' /= resources)
          => LET sg == out'.self
             IN /\ sg.name \notin DOMAIN resources
                /\ DOMAIN resources' =
                      DOMAIN resources \cup {sg.name}
                         \cup (IF sg.allow_self
                               THEN {sg.name \o <<"SelfTCPIngress">>,
                                     sg.name \o <<"SelfUDPIngress">>,
                                     sg.name \o <<"SelfICMPIngress">>}
                               ELSE {})
                /\ \A n \in DOMAIN resources : resources'[n] = resources[n]
                /\ resources'[sg.name] = sg
                /\ sg.allow_self
                      => \A x \in {"SelfTCPIngress", "SelfUDPIngress", "SelfICMPIngress"} :
                            /\ sg.name \o <<x>> \notin DOMAIN resources
                            /\ resources'[sg.name \o <<x>>].kind = "ingress"
                            /\ resources'[sg.name \o <<x>>].GroupId = <<"Ref">> \o sg.name
                            /\ resources'[sg.name \o <<x>>].SourceSecurityGroupId
                                  = <<"Ref">> \o sg.name]_vars

\* a security group with AllowSelf true has been registered beside one without
C9_Witness ==
    /\ out.op = "add_resource"
    /\ err = "none"
    /\ out.self.allow_self
    /\ Cardinality(DOMAIN resources) = 5
    /\ \E n \in DOMAIN resources : resources[n].kind = "sg" /\ ~resources[n].allow_self

\* C4: TemplateURL of a stack whose template name is set returns, when the name
\* is registered with a hash, the URL made of the bucket, the name, '-', that
\* hash and '.json'; when the name is not registered, or its entry has no hash,
\* it raises ValueError and returns nothing; the registry is left as it was.
C4_TemplateURL ==
    /\ []((out.op = "TemplateURL" /\ out.self.template_name /= None)
            => LET name == out.self.template_name
                   reg == out.registry
               IN IF name \in DOMAIN reg /\ "sha1" \in DOMAIN reg[name]
                  THEN /\ err = "none"
                       /\ Len(out.value) = 8
                       /\ out.value[5] = name[1]
                       /\ out.value[6] = "-"
                       /\ out.value[7] = reg[name]["sha1"][1]
                       /\ out.value[8] = ".json"
                       /\ \A i \in 1..4 : out.value[i] \notin {name[1], reg[name]["sha1"][1]}
                  ELSE /\ err = "ValueError"
                       /\ out.value = None)
    /\ [][out'.op = "TemplateURL" => (out' = out \/ (TEMPLATES' = TEMPLATES /\ out'.registry = TEMPLATES))]_vars

\* both names are registered with different hashes and a URL has been returned
C4_Witness ==
    /\ out.op = "TemplateURL"
    /\ err = "none"
    /\ out.self.template_name = <<"app">>
    /\ DOMAIN out.registry = TemplateNames
    /\ "sha1" \in DOMAIN out.registry[<<"db">>]
    /\ out.registry[<<"db">>]["sha1"] /= out.registry[<<"app">>]["sha1"]
    /\ out.value[7] = out.registry[<<"app">>]["sha1"][1]

\* only zone A's subnet and gateway security group are given at deployment
OnlyZoneA(vals) ==
    \A k \in DeployKeys : (vals[k] /= "") <=> (k[2] = "A")

\* C5 as stated: with only zone A configured, the AvailabilityZones list an
\* autoscaling group emits has exactly one conditional entry, zone A's.
C5_OneEmittedEntry ==
    (out.op = "Deploy" /\ OnlyZoneA(out.deploy))
        => /\ Len(out.emitted) = 1
           /\ out.emitted[1].then = RegionZone("a")

\* C5 amended: an autoscaling group of the application template, built without
\* overriding the zone conditions, emits the three conditional entries of zones
\* A, B, C, guarded by HasA, HasB, HasC; deployed with only zone A's subnet and
\* gateway security group non-empty, the list evaluates to zone A's entry alone.
C5_OneEntryWhenDeployed ==
    (out.op = "Deploy" /\ OnlyZoneA(out.deploy)
        /\ \A az \in Zones : out.self.az["cond"][az] = <<"Has", Upper(az)>>)
        => /\ Len(out.emitted) = 3
           /\ \A i \in 1..3 :
                 /\ out.emitted[i].wrap = "If"
                 /\ out.emitted[i].cond = <<"Has", Upper(AZS[i])>>
                 /\ out.emitted[i].then = <<"Join", "Ref", "AWS::Region", AZS[i]>>
           /\ out.value = <<<<"Join", "Ref", "AWS::Region", "a">>>>

\* the group was deployed with only zone A configured and one zone remains
C5_Witness ==
    /\ out.op = "Deploy"
    /\ OnlyZoneA(out.deploy)
    /\ \A az \in Zones : out.self.az["cond"][az] = <<"Has", Upper(az)>>
    /\ Len(out.emitted) = 3
    /\ Len(out.value) = 1

====
